---- MODULE Spec2Model ----
(***************************************************************************)
(* Model of sierra (src/src/main.rs): interactive triage of git branches.  *)
(* The repository, the terminal and the input stream are the environment; *)
(* get_branches, request_user_input, process_user_request and the body of  *)
(* main are translated from the source.                                    *)
(***************************************************************************)
EXTENDS Integers, Sequences, FiniteSets, TLC

\* ------------------------------------------------------------------ bounds
\* largest number of branch references in the repository
MaxBranches == 2
\* largest number of '?' and end-of-input answers that the input stream holds
MaxReprompts == 1

\* ------------------------------------------------------------- characters
\* bytes of the input stream, as code points (char::from(u8) keeps the value)
CH_k == 107
CH_d == 100
CH_q == 113
CH_help == 63
CH_x == 120
CH_D == 68
\* what stdin.next() gives when the stream has no byte: None
EOF == -1
\* stdin.next() gives Some(Err(..)): the read failed
READ_ERR == -2

InputBytes == {CH_k, CH_d, CH_q, CH_help, CH_x, CH_D}

\* char::from(byte): the Unicode scalar with the byte's value
CharFrom(byte) == byte % 256

\* str::to_lowercase on the letters that occur in the modelled names
LowerChar(c) ==
    CASE c = "A" -> "a"
      [] c = "B" -> "b"
      [] c = "D" -> "d"
      [] c = "E" -> "e"
      [] c = "H" -> "h"
      [] OTHER -> c

to_lowercase(s) == [i \in 1..Len(s) |-> LowerChar(s[i])]

\* str::contains(pattern): pattern occurs as a contiguous substring
contains(hay, needle) ==
    \E i \in 0..(Len(hay) - Len(needle)) :
        SubSeq(hay, i + 1, i + Len(needle)) = needle

\* ------------------------------------------------------------ names, ids
N_main == <<"m","a","i","n">>
N_origin_main == <<"o","r","i","g","i","n","/","m","a","i","n">>
N_master == <<"m","a","s","t","e","r">>
N_origin_master == <<"o","r","i","g","i","n","/","m","a","s","t","e","r">>
N_default == <<"d","e","f","a","u","l","t">>
N_origin_default == <<"o","r","i","g","i","n","/","d","e","f","a","u","l","t">>
N_origin_HEAD == <<"o","r","i","g","i","n","/","H","E","A","D">>
N_Ab == <<"A","b">>
N_by == <<"b","y">>
N_origin_Ab == <<"o","r","i","g","i","n","/","A","b">>
\* stands for a name whose bytes are not valid UTF-8
N_not_utf8 == <<"A","\\xff">>

\* the set built in main and handed to get_branches as `ignore`
indelible_branches ==
    {N_origin_main, N_main, N_origin_master, N_master,
     N_origin_default, N_origin_HEAD, N_default}

\* commits a branch tip can resolve to: id, recorded seconds, offset minutes
Commits ==
    [c1 |-> [id |-> <<"a","1","0","0","0","0","0","0","0","0","1","f">>,
             seconds |-> 100, offset_minutes |-> 0,  author |-> "ann"],
     c2 |-> [id |-> <<"b","2","0","0","0","0","0","0","0","0","2","e">>,
             seconds |-> 40,  offset_minutes |-> 1,  author |-> "none"],
     c3 |-> [id |-> <<"c","3","0","0","0","0","0","0","0","0","3","d">>,
             seconds |-> 110, offset_minutes |-> -1, author |-> "bob"]]

\* &branch.id.to_string()[1..=10]: bytes 1 to 10 of the hex text, counted from 0
ShortId(id) == SubSeq(id, 2, 11)

\* NaiveDateTime::from_timestamp(seconds, 0) + Duration::minutes(offset)
CommitTime(commit) == commit.seconds + 60 * commit.offset_minutes

\* commit.author().name().unwrap_or("no author")
CommitAuthor(commit) == IF commit.author = "none" THEN "no author" ELSE commit.author

\* the branch references a repository can hold; fault: what extraction hits
RefPool ==
    { [name |-> N_main,        branch_type |-> "Local",  commit |-> "c1", fault |-> "none"],
      [name |-> N_Ab,          branch_type |-> "Local",  commit |-> "c2", fault |-> "none"],
      [name |-> N_by,          branch_type |-> "Local",  commit |-> "c1", fault |-> "none"],
      [name |-> N_origin_Ab,   branch_type |-> "Remote", commit |-> "c3", fault |-> "none"],
      [name |-> N_origin_main, branch_type |-> "Remote", commit |-> "c1", fault |-> "none"],
      [name |-> N_origin_HEAD, branch_type |-> "Remote", commit |-> "c1", fault |-> "peel"],
      [name |-> N_not_utf8,    branch_type |-> "Local",  commit |-> "c2", fault |-> "utf8"] }

\* Option<&str> as a sequence of at most one string: <<>> is None
None == <<>>
Some(v) == <<v>>
is_some(o) == Len(o) = 1
unwrap(o) == o[1]

\* the values of the filter_in argument the model runs with
Filters == {None, Some(<<"A">>)}


\* ------------------------------------------------------------------ state
VARIABLES
    repo,          \* the repository's branch references, in enumeration order
    filter_in,     \* matches.value_of("filter_in")
    local_only,    \* matches.is_present("local_only")
    stdin_closed,  \* the input stream is at its end, for good: every read gives None
    refs,          \* positions of repo whose reference still exists
    branches,      \* the list get_branches returned
    idx,           \* position of `for branch in branches`
    depth,         \* nested request_user_input calls for the current branch
    action,        \* the BranchAction request_user_input returned
    result,        \* the closure's Result: [ok |-> ...] 
    pc,            \* where main is
    rawCalls,      \* calls of enable_raw_mode / disable_raw_mode, in order
    out,           \* terminal operations done on stdout, in order
    reads,         \* stdin.next() calls: <<position in branches, byte or EOF>>
    deleteCalls,   \* Branch::delete calls: position of repo, in order
    stderr,        \* what eprintln! printed
    exit_code      \* the process's exit status, -1 while it runs

vars == <<repo, filter_in, local_only, stdin_closed, refs, branches, idx, depth, action,
          result, pc, rawCalls, out, reads, deleteCalls, stderr, exit_code>>

\* ------------------------------------------------------------ Result, Error
OkResult == [ok |-> TRUE, kind |-> "none", ch |-> 0]
Err(kind) == [ok |-> FALSE, kind |-> kind, ch |-> 0]
\* Error::InvalidInput(char)
InvalidInput(c) == [ok |-> FALSE, kind |-> "InvalidInput", ch |-> c]

\* the letters are accepted in either case
try_from_any_case(value) ==
    CASE value \in {CH_k, CH_k - 32} -> [ok |-> TRUE, action |-> "Keep", err |-> OkResult]
      [] value \in {CH_d, CH_d - 32} -> [ok |-> TRUE, action |-> "Delete", err |-> OkResult]
      [] value \in {CH_q, CH_q - 32} -> [ok |-> TRUE, action |-> "Quit", err |-> OkResult]
      [] OTHER -> [ok |-> FALSE, action |-> "none", err |-> InvalidInput(value)]

\* 'k' is taken as Delete
try_from_k_deletes(value) ==
    CASE value = CH_k -> [ok |-> TRUE, action |-> "Delete", err |-> OkResult]
      [] value = CH_d -> [ok |-> TRUE, action |-> "Delete", err |-> OkResult]
      [] value = CH_q -> [ok |-> TRUE, action |-> "Quit", err |-> OkResult]
      [] OTHER -> [ok |-> FALSE, action |-> "none", err |-> InvalidInput(value)]

\* impl TryFrom<char> for BranchAction
try_from(value) ==
    CASE value = CH_k -> [ok |-> TRUE, action |-> "Keep", err |-> OkResult]
      [] value = CH_d -> [ok |-> TRUE, action |-> "Delete", err |-> OkResult]
      [] value = CH_q -> [ok |-> TRUE, action |-> "Quit", err |-> OkResult]
      [] OTHER -> [ok |-> FALSE, action |-> "none", err |-> InvalidInput(value)]

\* #[error(...)] of enum Error: the text eprintln!("{}", error) prints
ErrorMessage(e) ==
    IF e.kind = "InvalidInput"
    THEN [text |-> "Invalid input, dont know", ch |-> e.ch]
    ELSE [text |-> e.kind, ch |-> 0]

\* every kind is shown as "local"
branch_type_to_str_local(branch_type) == "local"

\* fn branch_type_to_str
branch_type_to_str(branch_type) ==
    CASE branch_type = "Local" -> "local"
      [] branch_type = "Remote" -> "remote"

\* --------------------------------------------------------------- get_branches
\* local_only is not handed to repo.branches
EnumeratedAll(r, lo) == [i \in 1..Len(r) |-> i]

\* repo.branches(local_only): the positions of repo the iterator yields
Enumerated(r, lo) ==
    SelectSeq([i \in 1..Len(r) |-> i], LAMBDA i : lo => r[i].branch_type = "Local")

\* is_head is not taken from the handle
ExtractNoHead(r, i) ==
    CASE r[i].fault = "utf8" -> [ok |-> FALSE, err |-> Err("FromUtf8Error")]
      [] r[i].fault = "peel" -> [ok |-> FALSE, err |-> Err("GitError")]
      [] OTHER ->
           [ok |-> TRUE,
            branch |-> i,
            id |-> Commits[r[i].commit].id,
            name |-> r[i].name,
            commit_author |-> CommitAuthor(Commits[r[i].commit]),
            branch_type |-> r[i].branch_type,
            commit_time |-> CommitTime(Commits[r[i].commit]),
            is_head |-> FALSE]

\* the closure of .map(..): a branch handle to Ok(Branch) or the error of `?`
Extract(r, i) ==
    CASE r[i].fault = "utf8" -> [ok |-> FALSE, err |-> Err("FromUtf8Error")]
      [] r[i].fault = "peel" -> [ok |-> FALSE, err |-> Err("GitError")]
      [] OTHER ->
           [ok |-> TRUE,
            branch |-> i,
            id |-> Commits[r[i].commit].id,
            name |-> r[i].name,
            commit_author |-> CommitAuthor(Commits[r[i].commit]),
            branch_type |-> r[i].branch_type,
            commit_time |-> CommitTime(Commits[r[i].commit]),
            is_head |-> r[i].is_head]

\* with a filter, the ignore set is not consulted
FilterKeepFilterOnly(item, ignore, fi) ==
    IF item.ok
    THEN IF is_some(fi)
         THEN LET fo == to_lowercase(unwrap(fi))
                  bn_lower == to_lowercase(item.name)
              IN  contains(bn_lower, fo)
         ELSE item.name \notin ignore
    ELSE TRUE

\* the filter string is compared as given, not in lowercase
FilterKeepCaseSensitive(item, ignore, fi) ==
    IF item.ok
    THEN IF is_some(fi)
         THEN LET fo == unwrap(fi)
                  bn_lower == to_lowercase(item.name)
              IN  item.name \notin ignore /\ contains(bn_lower, fo)
         ELSE item.name \notin ignore
    ELSE TRUE

\* a branch whose extraction failed is dropped from the list
FilterKeepDropsErrors(item, ignore, fi) ==
    IF item.ok
    THEN IF is_some(fi)
         THEN LET fo == to_lowercase(unwrap(fi))
                  bn_lower == to_lowercase(item.name)
              IN  item.name \notin ignore /\ contains(bn_lower, fo)
         ELSE item.name \notin ignore
    ELSE FALSE

\* the closure of .filter(..)
FilterKeep(item, ignore, fi) ==
    IF item.ok
    THEN IF is_some(fi)
         THEN LET fo == to_lowercase(unwrap(fi))
                  bn_lower == to_lowercase(item.name)
              IN  item.name \notin ignore /\ contains(bn_lower, fo)
         ELSE item.name \notin ignore
    ELSE TRUE

\* the items that reach .collect(), in iteration order
Filtered(r, ignore, fi, lo) ==
    LET en == Enumerated(r, lo)
        items == [k \in 1..Len(en) |-> Extract(r, en[k])]
    IN  SelectSeq(items, LAMBDA item : FilterKeep(item, ignore, fi))

\* .collect::<Result<Vec<_>>>(): the first Err, else all the branches
Collect(items) ==
    IF \E k \in 1..Len(items) : ~items[k].ok
    THEN LET first == CHOOSE k \in 1..Len(items) :
                          ~items[k].ok /\ \A j \in 1..(k - 1) : items[j].ok
         IN  [ok |-> FALSE, err |-> items[first].err, list |-> <<>>]
    ELSE [ok |-> TRUE, err |-> OkResult, list |-> items]

Orderings(n) == {p \in [1..n -> 1..n] : \A a, b \in 1..n : p[a] = p[b] => a = b}

IsSortedByKey(list) ==
    \A a, b \in 1..Len(list) : a < b => list[a].commit_time <= list[b].commit_time

\* the list is left in iteration order
sort_not_done(list) == {list}

\* branches.sort_unstable_by_key(|branch| branch.commit_time): the contract of
\* an unstable sort allows every ordering of the elements that is sorted by key
sort_unstable_by_key(list) ==
    {s \in {[k \in 1..Len(list) |-> list[p[k]]] : p \in Orderings(Len(list))} :
        IsSortedByKey(s)}

\* fn get_branches, after repo.branches(..) gave its iterator
get_branches(r, ignore, fi, lo) ==
    LET c == Collect(Filtered(r, ignore, fi, lo))
    IN  IF c.ok
        THEN {[ok |-> TRUE, err |-> OkResult, list |-> s] : s \in sort_unstable_by_key(c.list)}
        ELSE {c}

\* ------------------------------------------------------------ terminal output
NoName == <<>>
Color(c) == [op |-> "color", tag |-> c, text |-> "", name |-> NoName, id |-> NoName, num |-> 0]
Write(tag, text, name, id, num) ==
    [op |-> "write", tag |-> tag, text |-> text, name |-> name, id |-> id, num |-> num]
Flush == [op |-> "flush", tag |-> "", text |-> "", name |-> NoName, id |-> NoName, num |-> 0]

\* the prompt is written and not flushed
PromptOpsNoFlush(branch) ==
    << Color(IF branch.branch_type = "Local" THEN "Green" ELSE "Cyan"),
       Write("header", branch_type_to_str(branch.branch_type), branch.name, NoName, 0),
       Write("details", branch.commit_author, NoName, ShortId(branch.id), branch.commit_time),
       Color("Blue"),
       Write("prompt", "(k/d/q/?) > ", NoName, NoName, 0) >>

\* the sequence of set_color / write! / flush calls of request_user_input
PromptOps(branch) ==
    << Color(IF branch.branch_type = "Local" THEN "Green" ELSE "Cyan"),
       Write("header", branch_type_to_str(branch.branch_type), branch.name, NoName, 0),
       Write("details", branch.commit_author, NoName, ShortId(branch.id), branch.commit_time),
       Color("Blue"),
       Write("prompt", "(k/d/q/?) > ", NoName, NoName, 0),
       Flush >>

\* the writes of process_user_request for character c
EchoOps(c) == << Write("echo", "", NoName, NoName, c) >>
\* the menu is written by the call and again before the prompt
HelpOpsTwice ==
    << Write("help", "select from the following:", NoName, NoName, 0),
       Write("help_k", "k - Keep the branch", NoName, NoName, 0),
       Write("help_d", "d - Delete the branch", NoName, NoName, 0),
       Write("help_q", "q - Quit", NoName, NoName, 0),
       Write("help_h", "? - Help", NoName, NoName, 0),
       Write("help", "select from the following:", NoName, NoName, 0),
       Write("help_k", "k - Keep the branch", NoName, NoName, 0),
       Write("help_d", "d - Delete the branch", NoName, NoName, 0),
       Write("help_q", "q - Quit", NoName, NoName, 0),
       Write("help_h", "? - Help", NoName, NoName, 0),
       Flush >>

HelpOps ==
    << Write("help", "select from the following:", NoName, NoName, 0),
       Write("help_k", "k - Keep the branch", NoName, NoName, 0),
       Write("help_d", "d - Delete the branch", NoName, NoName, 0),
       Write("help_q", "q - Quit", NoName, NoName, 0),
       Write("help_h", "? - Help", NoName, NoName, 0),
       Flush >>

CountType(list, t) == Cardinality({k \in 1..Len(list) : list[k].branch_type = t})

SummaryOps(list) ==
    IF Len(list) = 0
    THEN << Color("Yellow"), Write("none_found", "No branches found. Ignoring:", NoName, NoName, 0) >>
    ELSE << Color("Yellow"),
            Write("total", "Total Branches Found (", NoName, NoName, Len(list)),
            Write("locals", "Local and ", NoName, NoName, CountType(list, "Local")),
            Write("remotes", "Remote)", NoName, NoName, CountType(list, "Remote")) >>

IgnoreOps(branch) ==
    << Color("Yellow"), Write("ignoring", "Ignoring current branch:", branch.name, NoName, 0) >>

DeletedOps(branch) ==
    << Color("Red"),
       Write("deleted", "was deleted.", branch.name, NoName, 0),
       Color("White"),
       Write("hint", "to undo, run: git branch", branch.name, branch.id, 0) >>

RefusalOps ==
    << Color("Red"),
       Write("refusal", "I don't want to be responsible for deleting remote branches.",
             NoName, NoName, 0) >>

\* the terminal calls of ops that return Ok before the first one that fails:
\* all of them (the step goes on), or a proper prefix (`?` returns IoError)
IoOutcomes(ops) == 0..Len(ops)

\* the error path leaves at once, past disable_raw_mode
FailExitsAtOnce(e) == /\ result' = e
                      /\ pc' = "report"

\* the closure returns Err(e) through a `?`: on to the code after the closure
Fail(e) == /\ result' = e
           /\ pc' = "cleanup"

\* the closure returns Ok(())
ReturnOk == /\ result' = OkResult
            /\ pc' = "cleanup"

\* ----------------------------------------------------------------------- Init
Repos ==
    UNION { { [i \in 1..n |->
                 [name |-> s[i].name, branch_type |-> s[i].branch_type,
                  commit |-> s[i].commit, fault |-> s[i].fault, is_head |-> (i = h)]] :
              s \in {f \in [1..n -> RefPool] : \A a, b \in 1..n : f[a] = f[b] => a = b},
              h \in 0..n }
            : n \in 0..MaxBranches }

\* git_branch_is_head holds for at most one branch, a local one
HeadIsLocal(r) == \A i \in 1..Len(r) : r[i].is_head => r[i].branch_type = "Local"

Init ==
    /\ repo \in {r \in Repos : HeadIsLocal(r)}
    /\ filter_in \in Filters
    /\ local_only \in BOOLEAN
    /\ stdin_closed \in BOOLEAN
    /\ refs = 1..Len(repo)
    /\ branches = <<>>
    /\ idx = 0
    /\ depth = 0
    /\ action = "none"
    /\ result = OkResult
    /\ pc = "open"
    /\ rawCalls = <<>>
    /\ out = <<>>
    /\ reads = <<>>
    /\ deleteCalls = <<>>
    /\ stderr = <<>>
    /\ exit_code = -1

\* -------------------------------------------------------------------- actions
\* let repo = Repository::open_from_env()?;
OpenRepository ==
    /\ pc = "open"
    /\ \E opened \in BOOLEAN :
          IF opened THEN pc' = "enable" /\ result' = result
                    ELSE Fail(Err("GitError"))
    /\ UNCHANGED <<repo, filter_in, local_only, stdin_closed, refs, branches, idx, depth, action,
                   rawCalls, out, reads, deleteCalls, stderr, exit_code>>

\* crossterm::terminal::enable_raw_mode()?;
EnableRawMode ==
    /\ pc = "enable"
    /\ rawCalls' = Append(rawCalls, "enable")
    /\ \E enabled \in BOOLEAN :
          IF enabled THEN pc' = "collect" /\ result' = result
                     ELSE Fail(Err("CrosstermError"))
    /\ UNCHANGED <<repo, filter_in, local_only, stdin_closed, refs, branches, idx, depth, action,
                   out, reads, deleteCalls, stderr, exit_code>>

\* let branches = &mut get_branches(&repo, &indelible_branches, filter_in, &local_only)?;
GetBranches ==
    /\ pc = "collect"
    /\ \E iterated \in BOOLEAN :
          IF iterated
          THEN \E g \in get_branches(repo, indelible_branches, filter_in, local_only) :
                  IF g.ok
                  THEN branches' = g.list /\ pc' = "summary" /\ result' = result
                  ELSE branches' = branches /\ Fail(g.err)
          ELSE branches' = branches /\ Fail(Err("GitError"))
    /\ UNCHANGED <<repo, filter_in, local_only, stdin_closed, refs, idx, depth, action,
                   rawCalls, out, reads, deleteCalls, stderr, exit_code>>

\* if branches.is_empty() { .. } else { the three count writes .. }
Summary ==
    /\ pc = "summary"
    /\ LET ops == SummaryOps(branches)
       IN  \E n \in IoOutcomes(ops) :
              /\ out' = out \o SubSeq(ops, 1, n)
              /\ IF n < Len(ops) THEN Fail(Err("IoError")) /\ idx' = idx
                 ELSE IF Len(branches) = 0 THEN ReturnOk /\ idx' = idx
                 ELSE pc' = "loop" /\ idx' = 1 /\ result' = result
    /\ UNCHANGED <<repo, filter_in, local_only, stdin_closed, refs, branches, depth, action,
                   rawCalls, reads, deleteCalls, stderr, exit_code>>

\* the loop looks for a branch one past the end of the list
LoopDoneOffByOne ==
    /\ pc = "loop"
    /\ idx > Len(branches) + 1
    /\ ReturnOk
    /\ UNCHANGED <<repo, filter_in, local_only, stdin_closed, refs, branches, idx, depth,
                   action, rawCalls, out, reads, deleteCalls, stderr, exit_code>>

\* for branch in branches: no branch is left, the closure ends with Ok(())
LoopDone ==
    /\ pc = "loop"
    /\ idx > Len(branches)
    /\ ReturnOk
    /\ UNCHANGED <<repo, filter_in, local_only, stdin_closed, refs, branches, idx, depth, action,
                   rawCalls, out, reads, deleteCalls, stderr, exit_code>>

\* if branch.is_head { set_color(Yellow)?; write!("Ignoring current branch ..")? }
IgnoreHead ==
    /\ pc = "loop"
    /\ idx <= Len(branches)
    /\ branches[idx].is_head
    /\ LET ops == IgnoreOps(branches[idx])
       IN  \E n \in IoOutcomes(ops) :
              /\ out' = out \o SubSeq(ops, 1, n)
              /\ IF n < Len(ops) THEN Fail(Err("IoError")) /\ idx' = idx
                 ELSE pc' = "loop" /\ idx' = idx + 1 /\ result' = result
    /\ UNCHANGED <<repo, filter_in, local_only, stdin_closed, refs, branches, depth, action,
                   rawCalls, reads, deleteCalls, stderr, exit_code>>

\* fn request_user_input up to stdin.next(): called by main for a branch that
\* is not the head, or by itself / process_user_request for the same branch
RequestUserInput ==
    /\ \/ pc = "loop" /\ idx <= Len(branches) /\ ~branches[idx].is_head
       \/ pc = "prompt"
    /\ depth' = depth + 1
    /\ LET ops == PromptOps(branches[idx])
       IN  \E n \in IoOutcomes(ops) :
              /\ out' = out \o SubSeq(ops, 1, n)
              /\ IF n < Len(ops) THEN Fail(Err("IoError"))
                 ELSE pc' = "read" /\ result' = result
    /\ UNCHANGED <<repo, filter_in, local_only, stdin_closed, refs, branches, idx, action,
                   rawCalls, reads, deleteCalls, stderr, exit_code>>

\* what stdin.next() can give: Some(Ok(byte)), None, Some(Err(..)); a stream
\* that is closed gives None
StdinNext == IF stdin_closed THEN {EOF} ELSE InputBytes \cup {EOF, READ_ERR}

\* how many answers so far made request_user_input call itself again
Reprompts == Cardinality({m \in 1..Len(reads) : reads[m][2] \in {EOF, CH_help}})

\* end of input is taken as the answer Quit
ReadByteEofQuits ==
    /\ pc = "read"
    /\ \E b \in StdinNext :
          /\ b \in {EOF, CH_help} => Reprompts < MaxReprompts
          /\ reads' = Append(reads, <<idx, b>>)
          /\ IF b = EOF
             THEN /\ pc' = "match"
                  /\ action' = "Quit"
                  /\ UNCHANGED <<out, result>>
             ELSE IF b = READ_ERR
             THEN /\ Fail(Err("IoError"))
                  /\ UNCHANGED <<out, action>>
             ELSE LET c == CharFrom(b)
                      ops == IF c = CH_help THEN EchoOps(c) \o HelpOps ELSE EchoOps(c)
                      t == try_from(c)
                  IN  \E n \in IoOutcomes(ops) :
                         /\ out' = out \o SubSeq(ops, 1, n)
                         /\ IF n < Len(ops)
                            THEN Fail(Err("IoError")) /\ action' = action
                            ELSE IF c = CH_help
                            THEN /\ pc' = "prompt"
                                 /\ UNCHANGED <<action, result>>
                            ELSE IF t.ok
                            THEN /\ action' = t.action
                                 /\ pc' = "match"
                                 /\ result' = result
                            ELSE Fail(t.err) /\ action' = action
    /\ UNCHANGED <<repo, filter_in, local_only, stdin_closed, refs, branches, idx, depth,
                   rawCalls, deleteCalls, stderr, exit_code>>

\* stdin.next() in request_user_input, and what follows it: the recursive call
\* on None, `byte?`, or process_user_request(byte, ..) with its writes, the
\* help menu on '?' and BranchAction::try_from(c)
ReadByte ==
    /\ pc = "read"
    /\ \E b \in StdinNext :
          /\ b \in {EOF, CH_help} => Reprompts < MaxReprompts
          /\ reads' = Append(reads, <<idx, b>>)
          /\ IF b = EOF
             THEN /\ pc' = "prompt"
                  /\ UNCHANGED <<out, action, result>>
             ELSE IF b = READ_ERR
             THEN /\ Fail(Err("IoError"))
                  /\ UNCHANGED <<out, action>>
             ELSE LET c == CharFrom(b)
                      ops == IF c = CH_help THEN EchoOps(c) \o HelpOps ELSE EchoOps(c)
                      t == try_from(c)
                  IN  \E n \in IoOutcomes(ops) :
                         /\ out' = out \o SubSeq(ops, 1, n)
                         /\ IF n < Len(ops)
                            THEN Fail(Err("IoError")) /\ action' = action
                            ELSE IF c = CH_help
                            THEN /\ pc' = "prompt"
                                 /\ UNCHANGED <<action, result>>
                            ELSE IF t.ok
                            THEN /\ action' = t.action
                                 /\ pc' = "match"
                                 /\ result' = result
                            ELSE Fail(t.err) /\ action' = action
    /\ UNCHANGED <<repo, filter_in, local_only, stdin_closed, refs, branches, idx, depth,
                   rawCalls, deleteCalls, stderr, exit_code>>

\* Quit only leaves the current branch, the loop goes on
MatchQuitContinues ==
    /\ pc = "match"
    /\ action = "Quit"
    /\ pc' = "loop"
    /\ idx' = idx + 1
    /\ action' = "none"
    /\ depth' = 0
    /\ UNCHANGED <<repo, filter_in, local_only, stdin_closed, refs, branches, result,
                   rawCalls, out, reads, deleteCalls, stderr, exit_code>>

\* BranchAction::Quit => return Ok(()),
MatchQuit ==
    /\ pc = "match"
    /\ action = "Quit"
    /\ ReturnOk
    /\ action' = "none"
    /\ depth' = 0
    /\ UNCHANGED <<repo, filter_in, local_only, stdin_closed, refs, branches, idx,
                   rawCalls, out, reads, deleteCalls, stderr, exit_code>>

\* BranchAction::Keep => { write!(stdout, "")?; }
MatchKeep ==
    /\ pc = "match"
    /\ action = "Keep"
    /\ pc' = "loop"
    /\ idx' = idx + 1
    /\ action' = "none"
    /\ depth' = 0
    /\ UNCHANGED <<repo, filter_in, local_only, stdin_closed, refs, branches, result,
                   rawCalls, out, reads, deleteCalls, stderr, exit_code>>

\* the reference at the list position is removed, not the branch's own
deleteByPosition(branch, deleted) ==
    IF deleted THEN [ok |-> TRUE, refs |-> refs \ {idx}]
               ELSE [ok |-> FALSE, refs |-> refs]

\* the error of the delete is dropped
deleteIgnoresError(branch, deleted) ==
    IF deleted THEN [ok |-> TRUE, refs |-> refs \ {branch.branch}]
               ELSE [ok |-> TRUE, refs |-> refs]

\* Branch::delete: self.branch.delete(), which removes the reference or fails
delete(branch, deleted) ==
    IF deleted THEN [ok |-> TRUE, refs |-> refs \ {branch.branch}]
               ELSE [ok |-> FALSE, refs |-> refs]

\* if branch.branch_type == BranchType::Local
IsLocalNoCheck(branch) == TRUE
IsLocal(branch) == branch.branch_type = "Local"

\* BranchAction::Delete, branch_type == Local: branch.delete()?, then the
\* confirmation and the restoration hint
MatchDeleteLocal ==
    /\ pc = "match"
    /\ action = "Delete"
    /\ IsLocal(branches[idx])
    /\ deleteCalls' = Append(deleteCalls, branches[idx].branch)
    /\ action' = "none"
    /\ depth' = 0
    /\ \E deleted \in BOOLEAN :
          LET d == delete(branches[idx], deleted)
              ops == DeletedOps(branches[idx])
          IN  /\ refs' = d.refs
              /\ IF ~d.ok
                 THEN Fail(Err("GitError")) /\ UNCHANGED <<out, idx>>
                 ELSE \E n \in IoOutcomes(ops) :
                         /\ out' = out \o SubSeq(ops, 1, n)
                         /\ IF n < Len(ops) THEN Fail(Err("IoError")) /\ idx' = idx
                            ELSE pc' = "loop" /\ idx' = idx + 1 /\ result' = result
    /\ UNCHANGED <<repo, filter_in, local_only, stdin_closed, branches,
                   rawCalls, reads, stderr, exit_code>>

\* BranchAction::Delete, branch_type != Local: the refusal
MatchDeleteRemote ==
    /\ pc = "match"
    /\ action = "Delete"
    /\ ~IsLocal(branches[idx])
    /\ action' = "none"
    /\ depth' = 0
    /\ LET ops == RefusalOps
       IN  \E n \in IoOutcomes(ops) :
              /\ out' = out \o SubSeq(ops, 1, n)
              /\ IF n < Len(ops) THEN Fail(Err("IoError")) /\ idx' = idx
                 ELSE pc' = "loop" /\ idx' = idx + 1 /\ result' = result
    /\ UNCHANGED <<repo, filter_in, local_only, stdin_closed, refs, branches,
                   rawCalls, reads, deleteCalls, stderr, exit_code>>

\* crossterm::terminal::disable_raw_mode().ok();  after the closure returned
DisableRawMode ==
    /\ pc = "cleanup"
    /\ rawCalls' = Append(rawCalls, "disable")
    /\ pc' = "report"
    /\ UNCHANGED <<repo, filter_in, local_only, stdin_closed, refs, branches, idx, depth, action,
                   result, out, reads, deleteCalls, stderr, exit_code>>

\* the status does not depend on the result
ExitAlwaysZero ==
    /\ pc = "report"
    /\ pc' = "done"
    /\ exit_code' = 0
    /\ IF result.ok
       THEN stderr' = stderr
       ELSE stderr' = Append(stderr, ErrorMessage(result))
    /\ UNCHANGED <<repo, filter_in, local_only, stdin_closed, refs, branches, idx, depth, action,
                   result, rawCalls, out, reads, deleteCalls>>

\* match result { Ok(()) => {}  Err(error) => { eprintln!(..); exit(1) } }
Exit ==
    /\ pc = "report"
    /\ pc' = "done"
    /\ IF result.ok
       THEN exit_code' = 0 /\ stderr' = stderr
       ELSE exit_code' = 1 /\ stderr' = Append(stderr, ErrorMessage(result))
    /\ UNCHANGED <<repo, filter_in, local_only, stdin_closed, refs, branches, idx, depth, action,
                   result, rawCalls, out, reads, deleteCalls>>

Next ==
    \/ OpenRepository
    \/ EnableRawMode
    \/ GetBranches
    \/ Summary
    \/ LoopDone
    \/ IgnoreHead
    \/ RequestUserInput
    \/ ReadByte
    \/ MatchQuit
    \/ MatchKeep
    \/ MatchDeleteLocal
    \/ MatchDeleteRemote
    \/ DisableRawMode
    \/ Exit

Spec == Init /\ [][Next]_vars

\* main called with no filter and local_only false: every local and remote
\* branch of the repository is a candidate for the list
TriageInit == Init /\ filter_in = None /\ ~local_only

\* the program takes its next step whenever it has one: main is one thread
\* that runs on, and a read returns once the stream has a byte or is closed
TriageSpec == TriageInit /\ [][Next]_vars /\ WF_vars(Next)

\* ===================================================================== claims
\* the reference (position of repo) behind the branch the loop is at
CurrentRef == branches[idx].branch

AtBranch == idx \in 1..Len(branches)

\* the terminal operations a step added to out
NewOut == SubSeq(out', Len(out) + 1, Len(out'))

HasTag(ops, tag) == \E k \in 1..Len(ops) : ops[k].tag = tag

\* the run is over or on its way out: the closure has returned
Leaving(p) == p \in {"cleanup", "report", "done"}

\* ---- C1
\* C1 as stated: whenever Delete was answered for a Remote branch, the step
\* that handles it calls no delete, leaves every reference in place and emits
\* the refusal message; and no Remote reference is ever missing.
C1_AnsweredDeleteOnRemote ==
    pc = "match" /\ action = "Delete" /\ repo[CurrentRef].branch_type = "Remote"

C1_RemoteRefusedAlways ==
    [][ /\ C1_AnsweredDeleteOnRemote =>
              /\ deleteCalls' = deleteCalls
              /\ refs' = refs
              /\ HasTag(NewOut, "refusal")
        /\ \A i \in 1..Len(repo) : repo[i].branch_type = "Remote" => i \in refs'
      ]_vars

\* C1 amended: the same, except that the refusal message is emitted unless
\* set_color or the write fails, and then the run ends with that IoError.
C1_RemoteNeverDeleted ==
    [][ /\ C1_AnsweredDeleteOnRemote =>
              /\ deleteCalls' = deleteCalls
              /\ refs' = refs
              /\ \/ HasTag(NewOut, "refusal") /\ pc' = "loop" /\ idx' = idx + 1
                 \/ ~HasTag(NewOut, "refusal") /\ pc' = "cleanup"
                       /\ result' = Err("IoError")
        /\ \A i \in 1..Len(repo) : repo[i].branch_type = "Remote" => i \in refs'
      ]_vars

\* a Remote branch got 'd', was refused, and the run went on to its end
C1_Witness ==
    /\ pc = "done"
    /\ \E m \in 1..Len(reads) :
          reads[m][2] = CH_d /\ repo[branches[reads[m][1]].branch].branch_type = "Remote"
    /\ HasTag(out, "refusal")
    /\ refs = 1..Len(repo)

\* ---- C2
C2_AtHead == pc = "loop" /\ AtBranch /\ repo[CurrentRef].is_head

\* no stdin.next() happened for the head branch, no prompt names it, it exists
C2_HeadUntouched ==
    /\ \A m \in 1..Len(reads') : ~repo[branches'[reads'[m][1]].branch].is_head
    /\ \A i \in 1..Len(repo) : repo[i].is_head => i \in refs'
    /\ \A k \in 1..Len(out') :
          out'[k].tag = "header" =>
             ~\E i \in 1..Len(repo) :
                 /\ repo[i].is_head
                 /\ repo[i].name = out'[k].name
                 /\ branch_type_to_str(repo[i].branch_type) = out'[k].text

\* C2 as stated: the head branch is never prompted, never read for, never
\* deleted; its step only produces the notice and goes on to the next branch.
C2_HeadOnlyNoticeAlways ==
    [][ /\ C2_AtHead =>
              /\ NewOut = IgnoreOps(branches[idx])
              /\ pc' = "loop" /\ idx' = idx + 1
              /\ reads' = reads /\ refs' = refs /\ deleteCalls' = deleteCalls
        /\ C2_HeadUntouched
      ]_vars

\* C2 amended: the same, except that when set_color or the write of the
\* notice fails the loop does not go on: the run ends with that IoError.
C2_HeadNeverPrompted ==
    [][ /\ C2_AtHead =>
              /\ reads' = reads /\ refs' = refs /\ deleteCalls' = deleteCalls
              /\ \/ NewOut = IgnoreOps(branches[idx]) /\ pc' = "loop" /\ idx' = idx + 1
                 \/ /\ ~HasTag(NewOut, "ignoring") /\ ~HasTag(NewOut, "prompt")
                    /\ pc' = "cleanup" /\ result' = Err("IoError")
        /\ C2_HeadUntouched
      ]_vars

\* the head branch was in the list with a branch after it, which was prompted
C2_Witness ==
    /\ pc = "done"
    /\ \E j \in 1..Len(branches) : repo[branches[j].branch].is_head /\ j < Len(branches)
    /\ HasTag(out, "ignoring")
    /\ Len(reads) > 0

\* ---- C3
C3_LocalDeleteSucceeds ==
    /\ pc = "match" /\ action = "Delete"
    /\ repo[CurrentRef].branch_type = "Local"
    /\ ~repo[CurrentRef].is_head
    /\ result' # Err("GitError")

\* C3: when 'd' is answered for a local non-head branch and the delete
\* succeeds, exactly that branch's reference is removed; a restoration hint
\* that is printed carries the branch's name and its tip commit id, and it is
\* printed whenever no terminal error ends the run.
C3_DeleteExactlyThatRef ==
    [][ C3_LocalDeleteSucceeds =>
           /\ CurrentRef \in refs
           /\ refs' = refs \ {CurrentRef}
           /\ deleteCalls' = Append(deleteCalls, CurrentRef)
           /\ \A k \in 1..Len(NewOut) :
                 NewOut[k].tag = "hint" =>
                    /\ NewOut[k].name = repo[CurrentRef].name
                    /\ NewOut[k].id = Commits[repo[CurrentRef].commit].id
           /\ result'.ok => HasTag(NewOut, "hint")
      ]_vars

\* a local branch that is not first in the repository was deleted, the rest is left
C3_Witness ==
    /\ pc = "done"
    /\ HasTag(out, "hint")
    /\ Cardinality(refs) = Len(repo) - 1
    /\ Len(repo) >= 2
    /\ 1 \in refs

\* ---- C4
C4_LastReadIsQuit == Len(reads) > 0 /\ reads[Len(reads)][2] = CH_q

\* C4: once 'q' has been read at branch k, every later step reads nothing,
\* prompts nothing, deletes nothing, leaves branches k..n in place and is on
\* the way out of the loop.
C4_QuitEndsLoop ==
    [][ C4_LastReadIsQuit =>
           /\ reads' = reads
           /\ refs' = refs
           /\ deleteCalls' = deleteCalls
           /\ ~HasTag(NewOut, "prompt") /\ ~HasTag(NewOut, "header")
           /\ Leaving(pc')
           /\ idx' = idx
           /\ \A j \in reads[Len(reads)][1]..Len(branches) : branches[j].branch \in refs'
      ]_vars

\* 'q' at a branch that is not the last of the list, and a normal exit
C4_Witness ==
    /\ pc = "done"
    /\ C4_LastReadIsQuit
    /\ reads[Len(reads)][1] < Len(branches)
    /\ exit_code = 0

\* ---- C5
\* C5: when the process has exited, disable_raw_mode was called, and after
\* every call of enable_raw_mode; this on every path to the exit.
C5_RawModeRestored ==
    pc = "done" =>
       /\ Len(rawCalls) > 0
       /\ rawCalls[Len(rawCalls)] = "disable"
       /\ \A a \in 1..Len(rawCalls) :
             rawCalls[a] = "enable" => \E b \in (a + 1)..Len(rawCalls) : rawCalls[b] = "disable"

\* exit through a failed delete, with raw mode enabled before
C5_Witness ==
    /\ pc = "done"
    /\ result = Err("GitError")
    /\ deleteCalls # <<>>
    /\ rawCalls = <<"enable", "disable">>

\* ---- C6
\* the protected set as the specification lists it
ProtectedNames ==
    {N_main, N_origin_main, N_master, N_origin_master,
     N_default, N_origin_default, N_origin_HEAD}

\* get_branches has just returned its list
Collected == pc = "summary"

\* C6: no branch of the list get_branches returned has a protected name,
\* with or without a filter.
C6_NoProtectedInList ==
    \A k \in 1..Len(branches) : branches[k].name \notin ProtectedNames

\* a filter that matches a protected name of the repository, and a list
C6_Witness ==
    /\ Collected
    /\ is_some(filter_in)
    /\ \E i \in 1..Len(repo) :
          /\ repo[i].name \in ProtectedNames
          /\ contains(to_lowercase(repo[i].name), to_lowercase(unwrap(filter_in)))
          /\ local_only => repo[i].branch_type = "Local"
    /\ Len(branches) > 0

\* ---- C7
\* the references get_branches enumerates
C7_EnumeratedRefs ==
    {i \in 1..Len(repo) : local_only => repo[i].branch_type = "Local"}

C7_Matches(i) ==
    contains(to_lowercase(repo[i].name), to_lowercase(unwrap(filter_in)))

\* C7: with a filter, the returned list holds exactly the enumerated branches
\* that are not protected and whose lowercase name contains the lowercase
\* filter.
C7_FilterExact ==
    (Collected /\ is_some(filter_in)) =>
       {branches[k].branch : k \in 1..Len(branches)} =
          {i \in C7_EnumeratedRefs : repo[i].name \notin ProtectedNames /\ C7_Matches(i)}

\* a filter that keeps one branch by a match across case and drops another
C7_Witness ==
    /\ Collected
    /\ is_some(filter_in)
    /\ \E k \in 1..Len(branches) :
          /\ contains(branches[k].name, unwrap(filter_in))
          /\ ~contains(branches[k].name, to_lowercase(unwrap(filter_in)))
    /\ \E i \in C7_EnumeratedRefs :
          repo[i].name \notin ProtectedNames /\ ~C7_Matches(i)

\* ---- C8
\* the branches that passed the filter, as the references behind them
C8_PassedFilter ==
    {i \in C7_EnumeratedRefs :
        /\ repo[i].name \notin ProtectedNames
        /\ is_some(filter_in) => C7_Matches(i)}

\* C8: the returned list is in ascending order of commit_time and is a
\* permutation of the branches that passed the filter.
C8_SortedPermutation ==
    Collected =>
       /\ \A a, b \in 1..Len(branches) :
             a < b => CommitTime(Commits[repo[branches[a].branch].commit])
                         <= CommitTime(Commits[repo[branches[b].branch].commit])
       /\ {branches[k].branch : k \in 1..Len(branches)} = C8_PassedFilter
       /\ Len(branches) = Cardinality(C8_PassedFilter)

\* a list whose order differs from the enumeration order
C8_Witness ==
    /\ Collected
    /\ Len(branches) >= 2
    /\ \E a, b \in 1..Len(branches) :
          /\ a < b
          /\ branches[a].branch > branches[b].branch
          /\ branches[a].commit_time < branches[b].commit_time

\* ---- C9
\* C9: two branches of the returned list with equal commit_time are in the
\* order in which the repository enumerated them.
C9_SortIsStable ==
    Collected =>
       \A a, b \in 1..Len(branches) :
          (a < b /\ branches[a].commit_time = branches[b].commit_time)
             => branches[a].branch < branches[b].branch

\* ---- C10
C10_Valid == {CH_k, CH_d, CH_q, CH_help}

C10_LastReadInvalid ==
    /\ Len(reads) > 0
    /\ reads[Len(reads)][2] \in 0..255
    /\ reads[Len(reads)][2] \notin C10_Valid

C10_Stops ==
    /\ reads' = reads
    /\ refs' = refs
    /\ deleteCalls' = deleteCalls
    /\ ~HasTag(NewOut, "prompt") /\ ~HasTag(NewOut, "header")
    /\ Leaving(pc) /\ Leaving(pc')
    /\ idx' = idx

\* C10 as stated: a byte other than k, d, q, ? always yields InvalidInput with
\* that character, the loop stops, and the exit is 1 with a message naming it.
C10_InvalidInputAlways ==
    [][ C10_LastReadInvalid =>
           /\ C10_Stops
           /\ result = InvalidInput(reads[Len(reads)][2])
           /\ pc' = "done" =>
                 /\ exit_code' = 1
                 /\ stderr' = << [text |-> "Invalid input, dont know",
                                  ch |-> reads[Len(reads)][2]] >>
      ]_vars

\* C10 amended: such a byte yields InvalidInput with that character when its
\* echo was written, and the IoError of the echo when that write failed; in
\* both cases it is not retried or skipped, the loop stops, nothing more is
\* prompted or deleted and the exit is 1; the message names the character in
\* the InvalidInput case.
C10_InvalidInputFatal ==
    [][ C10_LastReadInvalid =>
           LET c == reads[Len(reads)][2]
               echoed == Len(out) > 0 /\ out[Len(out)] = Write("echo", "", NoName, NoName, c)
           IN  /\ C10_Stops
               /\ echoed => result = InvalidInput(c)
               /\ ~echoed => result = Err("IoError")
               /\ pc' = "done" =>
                     /\ exit_code' = 1
                     /\ Len(stderr') = 1
                     /\ echoed => stderr' = << [text |-> "Invalid input, dont know", ch |-> c] >>
      ]_vars

\* an uppercase letter was read at a branch that is not the last, and the process exited
C10_Witness ==
    /\ pc = "done"
    /\ C10_LastReadInvalid
    /\ reads[Len(reads)][2] = CH_D
    /\ reads[Len(reads)][1] < Len(branches)
    /\ result.kind = "InvalidInput"
    /\ exit_code = 1

\* ---- C11
\* the tags of the terminal operations of one '?': the echo, the menu, the flush
C11_HelpTags == <<"echo", "help", "help_k", "help_d", "help_q", "help_h", "">>

C11_ReadsHelp ==
    pc = "read" /\ reads' = Append(reads, <<idx, CH_help>>)

\* how many times the first line of the help menu was written
C11_HelpCount(o) == Cardinality({k \in 1..Len(o) : o[k].tag = "help"})

C11_HelpReads(rd) == Cardinality({m \in 1..Len(rd) : rd[m][2] = CH_help})

\* the read after a '?' is for the same branch
C11_SameBranchAfterHelp(rd) ==
    \A m \in 1..(Len(rd) - 1) : rd[m][2] = CH_help => rd[m + 1][1] = rd[m][1]

\* C11 as stated: a '?' prints the help menu exactly once, decides nothing and
\* leaves the engine awaiting input for the same branch; the next byte that is
\* not '?' decides that branch, a 'd' after '?' deleting a local branch.
C11_HelpAlwaysReprompts ==
    [][ /\ C11_ReadsHelp =>
              /\ [k \in 1..Len(NewOut) |-> NewOut[k].tag] = C11_HelpTags
              /\ pc' = "prompt" /\ idx' = idx /\ action' = "none"
              /\ refs' = refs /\ deleteCalls' = deleteCalls /\ result' = result
        /\ pc = "prompt" => idx' = idx /\ action' = "none" /\ refs' = refs
        /\ C11_SameBranchAfterHelp(reads')
        /\ C11_HelpCount(out') = C11_HelpReads(reads')
      ]_vars

\* C11 amended: the same, except that a terminal write that fails while the
\* echo, the menu or the next prompt is written ends the run with that
\* IoError: the menu is then printed at most once for that '?', and nothing is
\* decided.  With the writes done, '?' then 'd' on a local branch that is not
\* the head prints the menu once and calls delete on that branch.
C11_HelpDecidesNothing ==
    [][ /\ C11_ReadsHelp =>
              /\ idx' = idx /\ action' = "none"
              /\ refs' = refs /\ deleteCalls' = deleteCalls
              /\ \/ /\ [k \in 1..Len(NewOut) |-> NewOut[k].tag] = C11_HelpTags
                    /\ pc' = "prompt" /\ result' = result
                 \/ /\ Len(NewOut) < Len(C11_HelpTags)
                    /\ [k \in 1..Len(NewOut) |-> NewOut[k].tag]
                          = SubSeq(C11_HelpTags, 1, Len(NewOut))
                    /\ pc' = "cleanup" /\ result' = Err("IoError")
        /\ pc = "prompt" =>
              /\ idx' = idx /\ action' = "none" /\ refs' = refs
              /\ pc' = "read" \/ (pc' = "cleanup" /\ result' = Err("IoError"))
        /\ C11_SameBranchAfterHelp(reads')
        /\ C11_HelpCount(out') <= C11_HelpReads(reads')
        /\ (result'.ok /\ pc' # "read") => C11_HelpCount(out') = C11_HelpReads(reads')
        /\ ( /\ pc = "read" /\ Len(reads) > 0
             /\ reads[Len(reads)] = <<idx, CH_help>>
             /\ reads' = Append(reads, <<idx, CH_d>>)
             /\ result'.ok )
              => action' = "Delete"
        /\ ( /\ pc = "match" /\ action = "Delete" /\ Len(reads) > 1
             /\ reads[Len(reads) - 1] = <<idx, CH_help>>
             /\ repo[CurrentRef].branch_type = "Local" )
              => deleteCalls' = Append(deleteCalls, CurrentRef)
      ]_vars

\* '?' and then 'd' for a local branch: the menu once, the branch deleted
C11_Witness ==
    /\ pc = "done"
    /\ Len(reads) = 2
    /\ reads[1][2] = CH_help /\ reads[2][2] = CH_d /\ reads[1][1] = reads[2][1]
    /\ C11_HelpCount(out) = 1
    /\ HasTag(out, "hint")
    /\ branches[reads[2][1]].branch \notin refs

\* ---- C12
\* the workflow completed: the list was empty and said so, or the loop went
\* through the whole list, or 'q' was read and echoed
C12_Normal ==
    \/ Len(branches) = 0 /\ HasTag(out, "none_found")
    \/ Len(branches) > 0 /\ idx = Len(branches) + 1
    \/ /\ C4_LastReadIsQuit
       /\ Len(out) > 0 /\ out[Len(out)].tag = "echo" /\ out[Len(out)].num = CH_q

C12_ErrorTexts ==
    {"GitError", "IoError", "CrosstermError", "FromUtf8Error", "Invalid input, dont know"}

\* C12: at the exit the status is 0 exactly when the workflow completed
\* normally and 1 exactly when a fatal error occurred, and then the error's
\* message, and nothing else, is on the diagnostic stream.
C12_ExitCode ==
    pc = "done" =>
       /\ exit_code \in {0, 1}
       /\ exit_code = 0 <=> C12_Normal
       /\ exit_code = 0 => stderr = <<>>
       /\ exit_code = 1 =>
             /\ Len(stderr) = 1
             /\ stderr[1].text \in C12_ErrorTexts
             /\ (stderr[1].text = "Invalid input, dont know")
                   <=> (C10_LastReadInvalid /\ result.kind = "InvalidInput")

\* an exit with status 1 after a failed read, a branch having been kept before
C12_Witness ==
    /\ pc = "done"
    /\ exit_code = 1
    /\ stderr = << [text |-> "IoError", ch |-> 0] >>
    /\ Len(reads) = 2 /\ reads[2][2] = READ_ERR

\* ---- C13
C13_ReadsEof ==
    pc = "read" /\ reads' = Append(reads, <<idx, EOF>>)

\* the tags of the terminal operations of one prompt
C13_PromptTags(branch_type) ==
    << IF branch_type = "Local" THEN "Green" ELSE "Cyan",
       "header", "details", "Blue", "prompt", "" >>

\* C13: when stdin.next() gives no byte, nothing is resolved, written, deleted
\* or failed: request_user_input is entered again for the same branch, and
\* what it then does is write the prompt of that branch and read again.
C13_EofReprompts ==
    [][ /\ C13_ReadsEof =>
              /\ pc' = "prompt"
              /\ idx' = idx
              /\ action' = "none"
              /\ result' = OkResult
              /\ refs' = refs /\ deleteCalls' = deleteCalls
              /\ out' = out
              /\ exit_code' = -1
        /\ (pc = "prompt" /\ reads # <<>> /\ reads[Len(reads)][2] = EOF) =>
              /\ idx' = idx /\ action' = "none" /\ refs' = refs /\ reads' = reads
              /\ [k \in 1..Len(NewOut) |-> NewOut[k].tag]
                    = SubSeq(C13_PromptTags(repo[CurrentRef].branch_type), 1, Len(NewOut))
              /\ \A k \in 1..Len(NewOut) :
                    NewOut[k].tag = "header" => NewOut[k].name = repo[CurrentRef].name
              /\ \/ pc' = "read" /\ Len(NewOut) = 6
                 \/ pc' = "cleanup" /\ Len(NewOut) < 6 /\ result' = Err("IoError")
        /\ \A m \in 1..(Len(reads') - 1) :
              reads'[m][2] = EOF => reads'[m + 1][1] = reads'[m][1]
      ]_vars

\* end of input at a branch, then the prompt again and 'k' for the same branch
C13_Witness ==
    /\ pc = "done"
    /\ Len(reads) >= 2
    /\ reads[1][2] = EOF /\ reads[2][2] = CH_k /\ reads[2][1] = reads[1][1]
    /\ Cardinality({k \in 1..Len(out) : out[k].tag = "prompt"}) >= 2
    /\ exit_code = 0

\* ---- C14
\* the enumerated references whose extraction fails
C14_Faulty == {i \in C7_EnumeratedRefs : repo[i].fault # "none"}

\* the error the first of them gives
C14_FirstError ==
    LET first == CHOOSE i \in C14_Faulty : \A j \in C14_Faulty : i <= j
    IN  IF repo[first].fault = "utf8" THEN Err("FromUtf8Error") ELSE Err("GitError")

\* get_branches was called and has returned
C14_Returned ==
    /\ pc \notin {"open", "enable", "collect"}
    /\ rawCalls # <<>>
    /\ result.kind # "CrosstermError"

\* C14: when the extraction of an enumerated branch fails, protected and
\* filtered-out branches included, get_branches returns the first such error
\* (or the error of the enumeration itself) and no list; nothing is written,
\* read, prompted or deleted in that run.
C14_FailFast ==
    (C14_Returned /\ C14_Faulty # {}) =>
       /\ branches = <<>>
       /\ result \in {C14_FirstError, Err("GitError")}
       /\ out = <<>>
       /\ reads = <<>>
       /\ deleteCalls = <<>>
       /\ refs = 1..Len(repo)
       /\ Leaving(pc)

\* a name that is not UTF-8 after a branch that would be listed; the error of
\* the name is what the process reports
C14_Witness ==
    /\ pc = "done"
    /\ result = Err("FromUtf8Error")
    /\ exit_code = 1
    /\ \E i, j \in C7_EnumeratedRefs :
          /\ i < j
          /\ repo[i].fault = "none" /\ repo[i].name \notin ProtectedNames
          /\ repo[j].fault = "utf8"

\* ---- C15
C15_Listed == {branches[k].branch : k \in 1..Len(branches)}

\* C15: with local_only the returned list has no Remote branch; without it
\* the branches of both types that pass the filter are in the list.
C15_LocalOnly ==
    Collected =>
       /\ local_only => \A i \in C15_Listed : repo[i].branch_type = "Local"
       /\ ~local_only =>
             \A i \in 1..Len(repo) :
                ( /\ repo[i].name \notin ProtectedNames
                  /\ is_some(filter_in) =>
                        contains(to_lowercase(repo[i].name), to_lowercase(unwrap(filter_in))) )
                   => i \in C15_Listed

\* local_only with a remote branch in the repository that the filter would pass
C15_Witness ==
    /\ Collected
    /\ local_only
    /\ Len(branches) > 0
    /\ \E i \in 1..Len(repo) :
          /\ repo[i].branch_type = "Remote"
          /\ repo[i].name \notin ProtectedNames
          /\ repo[i].fault = "none"

\* ---- C16
\* C16: the type text of every prompt is "local" for a Local branch and
\* "remote" for a Remote one; branch_type_to_str gives a text for both kinds
\* and no other text.
C16_TypeText ==
    [][ \A k \in 1..Len(NewOut) :
           NewOut[k].tag = "header" =>
              /\ repo[CurrentRef].branch_type = "Local" => NewOut[k].text = "local"
              /\ repo[CurrentRef].branch_type = "Remote" => NewOut[k].text = "remote"
              /\ NewOut[k].text \in {"local", "remote"}
      ]_vars

\* a prompt of a Local and a prompt of a Remote branch were written
C16_Witness ==
    /\ \E k \in 1..Len(out) : out[k].tag = "header" /\ out[k].text = "local"
    /\ \E k \in 1..Len(out) : out[k].tag = "header" /\ out[k].text = "remote"

\* ---- C17
\* C17: whenever stdin.next() is about to be called, the prompt has been
\* written and a flush follows the last write on stdout.
C17_FlushedBeforeRead ==
    pc = "read" =>
       \E f \in 1..Len(out) :
          /\ out[f].op = "flush"
          /\ \A k \in (f + 1)..Len(out) : out[k].op # "write"
          /\ \E p \in 1..(f - 1) :
                /\ out[p].tag = "prompt"
                /\ \A k \in (p + 1)..(f - 1) : out[k].op # "flush"

\* the read after the help menu and the renewed prompt
C17_Witness ==
    /\ pc = "read"
    /\ reads # <<>>
    /\ reads[Len(reads)][2] = CH_help
    /\ HasTag(out, "help_h")

\* ---- C18
\* the step is a delete call that leaves the reference in place: it failed
C18_DeleteFails ==
    /\ pc = "match" /\ action = "Delete"
    /\ repo[CurrentRef].branch_type = "Local"
    /\ deleteCalls' = Append(deleteCalls, CurrentRef)
    /\ CurrentRef \in refs'

\* the last delete call left its reference in place
C18_DeleteFailed ==
    deleteCalls # <<>> /\ deleteCalls[Len(deleteCalls)] \in refs

C18_Count(o, tag) == Cardinality({k \in 1..Len(o) : o[k].tag = tag})

\* C18: a delete that fails prints no confirmation and no hint and ends the
\* loop with the error; from then on nothing is read, prompted, written or
\* deleted, the references deleted before stay deleted, and the exit is 1.
C18_DeleteFailureFatal ==
    [][ /\ C18_DeleteFails =>
              /\ out' = out
              /\ refs' = refs
              /\ pc' = "cleanup" /\ result' = Err("GitError")
              /\ idx' = idx
        /\ C18_DeleteFailed =>
              /\ result = Err("GitError")
              /\ Leaving(pc) /\ Leaving(pc')
              /\ reads' = reads /\ out' = out
              /\ refs' = refs /\ deleteCalls' = deleteCalls
              /\ \A m \in 1..(Len(deleteCalls) - 1) : deleteCalls[m] \notin refs'
              /\ C18_Count(out, "deleted") = Len(deleteCalls) - 1
              /\ C18_Count(out, "hint") <= Len(deleteCalls) - 1
              /\ pc' = "done" => exit_code' = 1 /\ stderr' = << [text |-> "GitError", ch |-> 0] >>
      ]_vars

\* one branch was deleted, the delete of the next one failed
C18_Witness ==
    /\ pc = "done"
    /\ Len(deleteCalls) = 2
    /\ deleteCalls[1] \notin refs
    /\ deleteCalls[2] \in refs
    /\ exit_code = 1

\* ---- C19
\* the last byte stdin.next() gave for the branch at list position k, or EOF
C19_LastByteFor(k) ==
    LET ms == {m \in 1..Len(reads) : reads[m][1] = k}
    IN  IF ms = {} THEN EOF
        ELSE reads[CHOOSE m \in ms : \A n \in ms : n <= m][2]

\* a reference that is gone is a listed, allowed, local, non-head branch whose
\* last byte was 'd'
C19_DeletedOnlyIf ==
    \A i \in (1..Len(repo)) \ refs :
       \E k \in 1..Len(branches) :
          /\ branches[k].branch = i
          /\ repo[i].branch_type = "Local"
          /\ ~repo[i].is_head
          /\ repo[i].name \notin ProtectedNames
          /\ is_some(filter_in) =>
                contains(to_lowercase(repo[i].name), to_lowercase(unwrap(filter_in)))
          /\ C19_LastByteFor(k) = CH_d

\* reads go through the list in order; after a byte that is not '?' (and is
\* not the end of input) no read is for the same or an earlier branch
C19_InOrder ==
    \A m \in 1..(Len(reads) - 1) :
       /\ reads[m][1] <= reads[m + 1][1]
       /\ reads[m][2] \notin {CH_help, EOF} => reads[m][1] < reads[m + 1][1]

\* the step reads a byte that is not '?'
C19_ReadsByte ==
    /\ pc = "read"
    /\ Len(reads') = Len(reads) + 1
    /\ reads'[Len(reads')][2] \in (0..255) \ {CH_help}

C19_ActionOf(b) ==
    CASE b = CH_k -> "Keep" [] b = CH_d -> "Delete" [] b = CH_q -> "Quit" [] OTHER -> "none"

\* C19 as stated: only listed, allowed, local, non-head branches answered 'd'
\* are deleted, branches are resolved in list order and at most once, and
\* every byte other than '?' resolves the branch it was read for.
C19_EveryByteResolves ==
    [][ /\ C19_DeletedOnlyIf'
        /\ C19_InOrder'
        /\ C19_ReadsByte =>
              /\ pc' = "match" /\ idx' = idx
              /\ action' \in {"Keep", "Delete", "Quit"}
      ]_vars

\* C19 amended: the same, except that only a 'k', 'd' or 'q' whose echo is
\* written resolves its branch (as Keep, Delete, Quit); any other byte that is
\* not '?', and any byte whose echo fails, resolves no branch and ends the run
\* with an error.
C19_DeleteOnlyOnD ==
    [][ /\ C19_DeletedOnlyIf'
        /\ C19_InOrder'
        /\ C19_ReadsByte =>
              LET b == reads'[Len(reads')][2]
              IN  /\ idx' = idx /\ reads'[Len(reads')][1] = idx
                  /\ IF b \in {CH_k, CH_d, CH_q} /\ Len(NewOut) = 1
                     THEN pc' = "match" /\ action' = C19_ActionOf(b) /\ result'.ok
                     ELSE pc' = "cleanup" /\ action' = "none" /\ ~result'.ok
        /\ pc = "match" => idx' \in {idx, idx + 1} /\ action' = "none"
      ]_vars

\* the first branch was kept and the second deleted
C19_Witness ==
    /\ pc = "done"
    /\ Len(reads) = 2
    /\ reads[1] = <<1, CH_k>> /\ reads[2] = <<2, CH_d>>
    /\ branches[1].branch \in refs
    /\ branches[2].branch \notin refs

\* ---- C20
\* the bytes read so far that resolved a branch
C20_Resolving == {m \in 1..Len(reads) : reads[m][2] \in {CH_k, CH_d, CH_q}}

\* C20: with a stream that gives each prompt a byte other than '?' after a
\* bounded number of '?' and end-of-input answers, the process reaches its
\* exit, having resolved at most one branch per list entry; with a stream
\* that stays at end of input, no branch that is prompted is ever resolved.
C20_Terminates ==
    /\ stdin_closed \/ <>(pc = "done")
    /\ [](/\ Cardinality(C20_Resolving) <= Len(branches)
          /\ idx <= Len(branches) + 1
          /\ \A m, n \in C20_Resolving : reads[m][1] = reads[n][1] => m = n)
    /\ [](stdin_closed =>
             /\ action = "none" /\ pc # "match"
             /\ refs = 1..Len(repo)
             /\ \A k \in 1..Len(branches) : k < idx => branches[k].is_head
             /\ \A m \in 1..Len(reads) : reads[m][2] = EOF)

\* a closed stream at the prompt of a branch, read as often as the bound allows
C20_Witness ==
    /\ stdin_closed
    /\ pc = "read"
    /\ Len(reads) = MaxReprompts
    /\ AtBranch

====
